---------------------------- MODULE Spec2Model ----------------------------
(***************************************************************************)
(* A model of LinkedList<T> (src/LinkedList.h).                            *)
(*                                                                         *)
(* Two levels are modelled.                                                *)
(*                                                                         *)
(*  - The node level: list objects (head_, tail_, size_) over a heap of    *)
(*    Node cells (next, prev, data), with pushFront, pushBack, popFront,   *)
(*    popBack, clear, front, back and the copy assignment operator         *)
(*    translated statement by statement.  Specifications Spec and          *)
(*    SpecAssign run these.                                                *)
(*                                                                         *)
(*  - The value level: the const algorithms (splitHalves, explode,         *)
(*    insertionSort, mergeSortRecursive, mergeSortIterative, mergeSort),   *)
(*    which only use the public interface of the working lists they        *)
(*    build, are computed over the element sequence of a list.             *)
(*    Specification SpecSort runs these.                                   *)
(***************************************************************************)
EXTENDS Integers, Sequences, FiniteSets, TLC

\* ------------------------------------------------------------------ bounds
\* Number of heap addresses a run may have allocated at one time.
MaxNodes == 3
\* Node data at the node level are the integers 1..MaxVal.
MaxVal == 2
\* Total number of elements of the input lists at the value level.
MaxLen == 4
\* Elements at the value level carry a key in 1..MaxKey.
MaxKey == 2

\* ------------------------------------------------------------- node level
VARIABLES
  objs,   \* list object -> [head_, tail_, size_]
  nodes,  \* heap: allocated address -> [next, prev, data]
  ret,    \* the last call: member function, object, argument, outcome
  law,    \* progress of a push that is immediately followed by a pop
  snap,   \* the lists and the heap as they were before the call law is about
\* ------------------------------------------------------------ value level
  a,      \* element sequence of the list the algorithm is called on
  b,      \* element sequence of the argument list of merge
  ran,    \* the algorithm that ran last
  out     \* what it returned

vars == <<objs, nodes, ret, law, snap, a, b, ran, out>>
nodeVars == <<objs, nodes, ret, law, snap>>
valueVars == <<a, b, ran, out>>

\* nullptr
Null == 0
NodeIds == 1..MaxNodes
Values == 1..MaxVal
\* The list objects of a run.
Objs == {"a", "b"}

\* Node(const T& dataArg) : next(nullptr), prev(nullptr), data(dataArg)
Node(dataArg) == [next |-> Null, prev |-> Null, data |-> dataArg]

\* LinkedList() : head_(nullptr), tail_(nullptr), size_(0)
LinkedList == [head_ |-> Null, tail_ |-> Null, size_ |-> 0]

EmptyHeap == [n \in {} |-> Node(0)]

\* The machine state the member functions transform: the list objects, the
\* heap, and err, the std::runtime_error in flight ("none" when there is none).
Machine(o, n) == [objs |-> o, nodes |-> n, err |-> "none"]

\* new Node(newData), placed at address addr
New(heap, addr, newData) ==
  [m \in (DOMAIN heap) \cup {addr} |-> IF m = addr THEN Node(newData) ELSE heap[m]]

\* delete p
Delete(heap, p) == [m \in (DOMAIN heap) \ {p} |-> heap[m]]

\* An address that new may return when the caller does not choose one.
FreshAddr(heap) ==
  CHOOSE n \in NodeIds \ DOMAIN heap : \A m \in NodeIds \ DOMAIN heap : n <= m

\* bool empty() const { return !head_; }
empty(M, this) == M.objs[this].head_ = Null

\* int size() const { return size_; }
size(M, this) == M.objs[this].size_

\* pushFront that does not set the old head's prev pointer.
pushFrontNoPrev(M, this, newData, newNode) ==
  LET L == M.objs[this]
      heap == New(M.nodes, newNode, newData)
  IN IF L.head_ = Null
       THEN [M EXCEPT !.nodes = heap,
                      !.objs[this] = [head_ |-> newNode, tail_ |-> newNode,
                                      size_ |-> L.size_ + 1]]
       ELSE [M EXCEPT !.nodes = [heap EXCEPT ![newNode].next = L.head_],
                      !.objs[this] = [L EXCEPT !.head_ = newNode,
                                               !.size_ = L.size_ + 1]]

\* void pushFront(const T& newData); newNode is the address new returns.
pushFront(M, this, newData, newNode) ==
  LET L == M.objs[this]
      heap == New(M.nodes, newNode, newData)
  IN IF L.head_ = Null
       THEN [M EXCEPT !.nodes = heap,
                      !.objs[this] = [head_ |-> newNode, tail_ |-> newNode,
                                      size_ |-> L.size_ + 1]]
       ELSE LET oldHead == L.head_
            IN [M EXCEPT !.nodes = [heap EXCEPT ![oldHead].prev = newNode,
                                                ![newNode].next = oldHead],
                         !.objs[this] = [L EXCEPT !.head_ = newNode,
                                                  !.size_ = L.size_ + 1]]

\* void pushBack(const T& newData); newNode is the address new returns.
pushBack(M, this, newData, newNode) ==
  LET L == M.objs[this]
      heap == New(M.nodes, newNode, newData)
  IN IF L.head_ = Null
       THEN [M EXCEPT !.nodes = heap,
                      !.objs[this] = [head_ |-> newNode, tail_ |-> newNode,
                                      size_ |-> L.size_ + 1]]
       ELSE LET oldTail == L.tail_
            IN [M EXCEPT !.nodes = [heap EXCEPT ![oldTail].next = newNode,
                                                ![newNode].prev = oldTail],
                         !.objs[this] = [L EXCEPT !.tail_ = newNode,
                                                  !.size_ = L.size_ + 1]]

\* popFront that forgets to decrement size_ when more than one node is left.
popFrontNoCount(M, this) ==
  LET L == M.objs[this]
  IN IF L.head_ = Null THEN M
     ELSE IF M.nodes[L.head_].next = Null
       THEN [M EXCEPT !.nodes = Delete(M.nodes, L.head_),
                      !.objs[this] = [head_ |-> Null, tail_ |-> Null,
                                      size_ |-> L.size_ - 1],
                      !.err = IF L.size_ - 1 # 0 THEN "popFront" ELSE "none"]
       ELSE LET oldHead == L.head_
                newHead == M.nodes[oldHead].next
            IN [M EXCEPT !.nodes = Delete([M.nodes EXCEPT ![newHead].prev = Null],
                                          oldHead),
                         !.objs[this] = [L EXCEPT !.head_ = newHead]]

\* void popFront()
popFront(M, this) ==
  LET L == M.objs[this]
  IN IF L.head_ = Null THEN M
     ELSE IF M.nodes[L.head_].next = Null
       THEN [M EXCEPT !.nodes = Delete(M.nodes, L.head_),
                      !.objs[this] = [head_ |-> Null, tail_ |-> Null,
                                      size_ |-> L.size_ - 1],
                      !.err = IF L.size_ - 1 # 0 THEN "popFront" ELSE "none"]
       ELSE LET oldHead == L.head_
                newHead == M.nodes[oldHead].next
            IN [M EXCEPT !.nodes = Delete([M.nodes EXCEPT ![newHead].prev = Null],
                                          oldHead),
                         !.objs[this] = [L EXCEPT !.head_ = newHead,
                                                  !.size_ = L.size_ - 1]]

\* popBack that does not reset the new tail's next pointer.
popBackStaleNext(M, this) ==
  LET L == M.objs[this]
  IN IF L.head_ = Null THEN M
     ELSE IF M.nodes[L.tail_].prev = Null
       THEN [M EXCEPT !.nodes = Delete(M.nodes, L.tail_),
                      !.objs[this] = [head_ |-> Null, tail_ |-> Null,
                                      size_ |-> L.size_ - 1],
                      !.err = IF L.size_ - 1 # 0 THEN "popBack" ELSE "none"]
       ELSE LET oldTail == L.tail_
                newTail == M.nodes[oldTail].prev
            IN [M EXCEPT !.nodes = Delete(M.nodes, oldTail),
                         !.objs[this] = [L EXCEPT !.tail_ = newTail,
                                                  !.size_ = L.size_ - 1]]

\* popBack that treats the empty list as an error, as back does.
popBackThrowsOnEmpty(M, this) ==
  LET L == M.objs[this]
  IN IF L.head_ = Null THEN [M EXCEPT !.err = "popBack"]
     ELSE IF M.nodes[L.tail_].prev = Null
       THEN [M EXCEPT !.nodes = Delete(M.nodes, L.tail_),
                      !.objs[this] = [head_ |-> Null, tail_ |-> Null,
                                      size_ |-> L.size_ - 1],
                      !.err = IF L.size_ - 1 # 0 THEN "popBack" ELSE "none"]
       ELSE LET oldTail == L.tail_
                newTail == M.nodes[oldTail].prev
            IN [M EXCEPT !.nodes = Delete([M.nodes EXCEPT ![newTail].next = Null],
                                          oldTail),
                         !.objs[this] = [L EXCEPT !.tail_ = newTail,
                                                  !.size_ = L.size_ - 1]]

\* void popBack()
popBack(M, this) ==
  LET L == M.objs[this]
  IN IF L.head_ = Null THEN M
     ELSE IF M.nodes[L.tail_].prev = Null
       THEN [M EXCEPT !.nodes = Delete(M.nodes, L.tail_),
                      !.objs[this] = [head_ |-> Null, tail_ |-> Null,
                                      size_ |-> L.size_ - 1],
                      !.err = IF L.size_ - 1 # 0 THEN "popBack" ELSE "none"]
       ELSE LET oldTail == L.tail_
                newTail == M.nodes[oldTail].prev
            IN [M EXCEPT !.nodes = Delete([M.nodes EXCEPT ![newTail].next = Null],
                                          oldTail),
                         !.objs[this] = [L EXCEPT !.tail_ = newTail,
                                                  !.size_ = L.size_ - 1]]

\* void clear(): while (head_) popBack(); then the size_ check.  An exception
\* thrown by popBack leaves the loop.
RECURSIVE clear(_, _)
clear(M, this) ==
  IF M.err # "none" THEN M
  ELSE IF M.objs[this].head_ # Null THEN clear(popBack(M, this), this)
  ELSE IF M.objs[this].size_ # 0 THEN [M EXCEPT !.err = "clear"]
  ELSE M

\* The loop of operator=: while (cur) { pushBack(cur->data); cur = cur->next; }
RECURSIVE copyLoop(_, _, _)
copyLoop(M, this, cur) ==
  IF cur = Null THEN M
  ELSE LET pushed == pushBack(M, this, M.nodes[cur].data, FreshAddr(M.nodes))
       IN copyLoop(pushed, this, pushed.nodes[cur].next)

\* LinkedList<T>& operator=(const LinkedList<T>& other): clear(), then the
\* loop from other.head_ as it is after the clear.
assign(M, this, other) ==
  LET cleared == clear(M, this)
  IN IF cleared.err # "none" THEN cleared
     ELSE copyLoop(cleared, this, cleared.objs[other].head_)

\* T& front(): the data of the head node, or the runtime_error of an empty list.
front(M, this) ==
  IF M.objs[this].head_ = Null
    THEN [err |-> "front", val |-> 0]
    ELSE [err |-> "none", val |-> M.nodes[M.objs[this].head_].data]

\* T& back(): the data of the tail node, or the runtime_error of an empty list.
back(M, this) ==
  IF M.objs[this].tail_ = Null
    THEN [err |-> "back", val |-> 0]
    ELSE [err |-> "none", val |-> M.nodes[M.objs[this].tail_].data]


\* The walk "cur = head_; while (cur) { ...; cur = cur->next; }", as the list
\* of the node addresses it visits.  The walk is cut after MaxNodes + 1 nodes
\* (a cycle), and reading a deleted node ends it with the mark -1.
RECURSIVE forwardPtrList(_, _, _)
forwardPtrList(heap, cur, fuel) ==
  IF cur = Null \/ fuel = 0 THEN <<>>
  ELSE IF cur \notin DOMAIN heap THEN <<-1>>
  ELSE <<cur>> \o forwardPtrList(heap, heap[cur].next, fuel - 1)

\* The walk "cur = tail_; while (cur) { reversePtrList.pushFront(cur);
\* cur = cur->prev; }".
RECURSIVE reversePtrList(_, _, _)
reversePtrList(heap, cur, fuel) ==
  IF cur = Null \/ fuel = 0 THEN <<>>
  ELSE IF cur \notin DOMAIN heap THEN <<-1>>
  ELSE reversePtrList(heap, heap[cur].prev, fuel - 1) \o <<cur>>

Fuel == MaxNodes + 1

\* bool assertCorrectSize() const: TRUE when it returns, FALSE when it throws.
assertCorrectSize(M, this) ==
  Len(forwardPtrList(M.nodes, M.objs[this].head_, Fuel)) = M.objs[this].size_

\* bool assertPrevLinks() const: TRUE when it returns, FALSE when it throws.
assertPrevLinks(M, this) ==
  forwardPtrList(M.nodes, M.objs[this].head_, Fuel)
    = reversePtrList(M.nodes, M.objs[this].tail_, Fuel)

\* The data of the nodes of a list from head_ on, as print walks them.
Elements(M, this) ==
  LET ptrs == forwardPtrList(M.nodes, M.objs[this].head_, Fuel)
  IN [i \in 1..Len(ptrs) |->
        IF ptrs[i] \in DOMAIN M.nodes THEN M.nodes[ptrs[i]].data ELSE -1]

\* ------------------------------------------------------ node-level actions
NoLaw == [stage |-> "none", op |-> "", obj |-> ""]
NoSnap == [objs |-> [o \in Objs |-> LinkedList], nodes |-> EmptyHeap]
Here == [objs |-> objs, nodes |-> nodes]

\* The call record of member function op on object this.
Called(op, this, other, err, val) ==
  [op |-> op, obj |-> this, other |-> other, err |-> err, val |-> val,
   wasEmpty |-> objs[this].head_ = Null]

Returns(M, call) ==
  /\ objs' = M.objs
  /\ nodes' = M.nodes
  /\ ret' = [call EXCEPT !.err = M.err]

\* A pop continues the law when it directly follows the matching push on the
\* same object; any other call ends it.
PopAfter(pushOp, this) ==
  IF law.stage = "pushed" /\ law.op = pushOp /\ law.obj = this
    THEN law' = [law EXCEPT !.stage = "popped"] /\ snap' = snap
    ELSE law' = NoLaw /\ snap' = NoSnap

PushFront(this) ==
  \E newData \in Values, newNode \in NodeIds \ DOMAIN nodes :
    /\ Returns(pushFront(Machine(objs, nodes), this, newData, newNode),
               Called("pushFront", this, "", "none", newData))
    /\ law' = [stage |-> "pushed", op |-> "pushFront", obj |-> this]
    /\ snap' = Here
    /\ UNCHANGED valueVars

PushBack(this) ==
  \E newData \in Values, newNode \in NodeIds \ DOMAIN nodes :
    /\ Returns(pushBack(Machine(objs, nodes), this, newData, newNode),
               Called("pushBack", this, "", "none", newData))
    /\ law' = [stage |-> "pushed", op |-> "pushBack", obj |-> this]
    /\ snap' = Here
    /\ UNCHANGED valueVars

PopFront(this) ==
  /\ Returns(popFront(Machine(objs, nodes), this),
             Called("popFront", this, "", "none", 0))
  /\ PopAfter("pushFront", this)
  /\ UNCHANGED valueVars

PopBack(this) ==
  /\ Returns(popBack(Machine(objs, nodes), this),
             Called("popBack", this, "", "none", 0))
  /\ PopAfter("pushBack", this)
  /\ UNCHANGED valueVars

Clear(this) ==
  /\ Returns(clear(Machine(objs, nodes), this),
             Called("clear", this, "", "none", 0))
  /\ law' = NoLaw /\ snap' = NoSnap
  /\ UNCHANGED valueVars

Front(this) ==
  LET r == front(Machine(objs, nodes), this)
  IN /\ ret' = Called("front", this, "", r.err, r.val)
     /\ law' = NoLaw /\ snap' = NoSnap
     /\ UNCHANGED <<objs, nodes>>
     /\ UNCHANGED valueVars

Back(this) ==
  LET r == back(Machine(objs, nodes), this)
  IN /\ ret' = Called("back", this, "", r.err, r.val)
     /\ law' = NoLaw /\ snap' = NoSnap
     /\ UNCHANGED <<objs, nodes>>
     /\ UNCHANGED valueVars

\* this = other;  The heap must have room for the copies.
Assign(this, other) ==
  LET cleared == clear(Machine(objs, nodes), this)
  IN /\ MaxNodes - Cardinality(DOMAIN cleared.nodes) >= cleared.objs[other].size_
     /\ Returns(assign(Machine(objs, nodes), this, other),
                Called("operator=", this, other, "none", 0))
     /\ law' = [stage |-> "assigned", op |-> "operator=", obj |-> this]
     /\ snap' = Here
     /\ UNCHANGED valueVars

InitNode ==
  /\ objs = [o \in Objs |-> LinkedList]
  /\ nodes = EmptyHeap
  /\ ret = [op |-> "LinkedList", obj |-> "a", other |-> "", err |-> "none",
            val |-> 0, wasEmpty |-> TRUE]
  /\ law = NoLaw
  /\ snap = NoSnap

InitValue ==
  /\ a = <<>>
  /\ b = <<>>
  /\ ran = "none"
  /\ out = <<>>

Init == InitNode /\ InitValue

\* One list, built from empty by pushFront, pushBack, popFront, popBack, clear,
\* and read by front and back.
Next ==
  \/ PushFront("a")
  \/ PushBack("a")
  \/ PopFront("a")
  \/ PopBack("a")
  \/ Clear("a")
  \/ Front("a")
  \/ Back("a")

Spec == Init /\ [][Next]_vars

\* Two lists, with copy assignment between any two of them.
NextAssign ==
  \/ \E this \in Objs : PushBack(this)
  \/ \E this \in Objs : PushFront(this)
  \/ \E this \in Objs : PopBack(this)
  \/ \E this \in Objs, other \in Objs : Assign(this, other)

SpecAssign == Init /\ [][NextAssign]_vars

\* ------------------------------------------------------- node-level claims
Now == [objs |-> objs, nodes |-> nodes, err |-> "none"]
Then == [objs |-> snap.objs, nodes |-> snap.nodes, err |-> "none"]

\* C1: after any sequence of pushFront, pushBack, popFront, popBack and clear
\* from the empty list, size_ is the number of nodes met walking next from
\* head_, which is the number met walking prev from tail_, and head_ is null
\* exactly when tail_ is null, exactly when size_ is 0.
C1_SizeBookkeeping ==
  \A o \in Objs :
    /\ assertCorrectSize(Now, o)
    /\ Len(reversePtrList(nodes, objs[o].tail_, Fuel)) = objs[o].size_
    /\ -1 \notin {forwardPtrList(nodes, objs[o].head_, Fuel)[i] :
                     i \in 1..Len(forwardPtrList(nodes, objs[o].head_, Fuel))}
    /\ (objs[o].head_ = Null) = (objs[o].tail_ = Null)
    /\ (objs[o].tail_ = Null) = (objs[o].size_ = 0)

\* C1 witness: a list of two or more nodes that a pop has shortened.
C1_Witness ==
  /\ ret.op \in {"popFront", "popBack"}
  /\ objs["a"].size_ >= 2
  /\ Len(forwardPtrList(nodes, objs["a"].head_, Fuel)) = objs["a"].size_

\* C2: after any such sequence, n.next.prev is n for every node n that has a
\* next node, head_'s prev and tail_'s next are null, the walk from head_
\* ends at tail_, and the forward node sequence is the reversed backward one
\* (assertPrevLinks returns).
C2_LinksConsistent ==
  \A o \in Objs :
    LET fwd == forwardPtrList(nodes, objs[o].head_, Fuel)
    IN /\ \A i \in 1..Len(fwd) :
            /\ fwd[i] \in DOMAIN nodes
            /\ nodes[fwd[i]].next # Null =>
                 /\ nodes[fwd[i]].next \in DOMAIN nodes
                 /\ nodes[nodes[fwd[i]].next].prev = fwd[i]
            /\ nodes[fwd[i]].prev # Null =>
                 /\ nodes[fwd[i]].prev \in DOMAIN nodes
                 /\ nodes[nodes[fwd[i]].prev].next = fwd[i]
       /\ objs[o].head_ # Null =>
            /\ nodes[objs[o].head_].prev = Null
            /\ nodes[objs[o].tail_].next = Null
            /\ fwd[Len(fwd)] = objs[o].tail_
            /\ reversePtrList(nodes, objs[o].tail_, Fuel)[1] = objs[o].head_
       /\ assertPrevLinks(Now, o)

\* C2 witness: a list of three nodes left by a push at the front.
C2_Witness ==
  /\ ret.op = "pushFront"
  /\ objs["a"].size_ = 3
  /\ assertPrevLinks(Now, "a")

\* C8 as claimed: after this = other, for any two list objects, the same one
\* included, this holds the elements other held before, in order, with
\* other's former size, and other's elements are unchanged.
C8_AssignCopies ==
  law.stage = "assigned" =>
    /\ ret.err = "none"
    /\ Elements(Now, ret.obj) = Elements(Then, ret.other)
    /\ objs[ret.obj].size_ = snap.objs[ret.other].size_
    /\ Elements(Now, ret.other) = Elements(Then, ret.other)

\* What the assignment does do: between two different objects it copies, and
\* a list assigned to itself is left empty.
AssignBehaviour ==
  law.stage = "assigned" =>
    /\ ret.err = "none"
    /\ ret.obj # ret.other =>
         /\ Elements(Now, ret.obj) = Elements(Then, ret.other)
         /\ objs[ret.obj].size_ = snap.objs[ret.other].size_
         /\ Elements(Now, ret.other) = Elements(Then, ret.other)
    /\ ret.obj = ret.other => objs[ret.obj] = LinkedList

\* C9: popFront and popBack on an empty list throw nothing and change neither
\* head_, tail_, size_ nor the heap, while front and back on an empty list
\* throw.
C9_PopEmptyNoOp ==
  [][/\ (ret'.op \in {"popFront", "popBack"} /\ objs[ret'.obj].head_ = Null) =>
          /\ ret'.err = "none"
          /\ objs' = objs
          /\ nodes' = nodes
          /\ objs'[ret'.obj] = LinkedList
     /\ (ret'.op \in {"front", "back"} /\ objs[ret'.obj].head_ = Null) =>
          ret'.err = ret'.op
     /\ (ret'.op \in {"front", "back"} /\ objs[ret'.obj].head_ # Null) =>
          ret'.err = "none"]_vars

\* C9 witness: a pop was called on an empty list.
C9_Witness ==
  /\ ret.op \in {"popFront", "popBack"}
  /\ ret.wasEmpty
  /\ ret.err = "none"
  /\ objs[ret.obj] = LinkedList

\* C10: pushBack(v) directly followed by popBack(), and pushFront(v) directly
\* followed by popFront(), leave the list as it was: the same elements, size,
\* head and tail nodes, the same heap, and the end node's outward link null.
C10_PushPopIdentity ==
  law.stage = "popped" =>
    /\ ret.err = "none"
    /\ Elements(Now, law.obj) = Elements(Then, law.obj)
    /\ objs[law.obj] = snap.objs[law.obj]
    /\ nodes = snap.nodes
    /\ objs[law.obj].head_ # Null =>
         /\ nodes[objs[law.obj].tail_].next = Null
         /\ nodes[objs[law.obj].head_].prev = Null

\* C10 witness: a push on a non-empty list was undone by the matching pop.
C10_Witness ==
  /\ law.stage = "popped"
  /\ ret.op \in {"popFront", "popBack"}
  /\ objs[law.obj].size_ >= 1
  /\ nodes = snap.nodes

\* ------------------------------------------------------------ value level
\* The element type T: a key that operator<= and operator< compare, and a
\* payload that they do not look at.
Tags == {"x", "y"}
Elems == (1..MaxKey) \X Tags
Key(e) == e[1]

\* prev->data <= cur->data
LessEq(x, y) == Key(x) <= Key(y)

SeqsUpTo(S, n) == UNION {[1..k -> S] : k \in 0..n}

\* pushFront, pushBack, popFront, popBack, front and back as they act on the
\* element sequence of a list.
seqPushFront(l, newData) == <<newData>> \o l
seqPushBack(l, newData) == Append(l, newData)
seqPopFront(l) == IF l = <<>> THEN l ELSE Tail(l)
seqPopBack(l) == IF l = <<>> THEN l ELSE SubSeq(l, 1, Len(l) - 1)
seqFront(l) == l[1]
seqBack(l) == l[Len(l)]

\* The copy constructor: an empty list, then operator=, which pushes back the
\* data of each node of other in turn.
RECURSIVE copyInto(_, _)
copyInto(this, rest) ==
  IF rest = <<>> THEN this
  ELSE copyInto(seqPushBack(this, Head(rest)), Tail(rest))

copy(other) == copyInto(<<>>, other)

\* bool isSorted() const
isSorted(l) ==
  IF Len(l) < 2 THEN TRUE
  ELSE \A i \in 1..(Len(l) - 1) : LessEq(l[i], l[i + 1])

\* The for loop of splitHalves.
RECURSIVE splitLoop(_, _, _, _)
splitLoop(leftHalf, rightHalf, i, rightHalfLength) ==
  IF i < rightHalfLength
    THEN splitLoop(seqPopBack(leftHalf),
                   seqPushFront(rightHalf, seqBack(leftHalf)),
                   i + 1, rightHalfLength)
    ELSE seqPushBack(seqPushBack(<<>>, copy(leftHalf)), copy(rightHalf))

\* splitHalves that fills the right half with pushBack.
splitHalvesPushBack(l) ==
  LET RECURSIVE loop(_, _, _)
      loop(leftHalf, rightHalf, i) ==
        IF i < Len(l) \div 2
          THEN loop(seqPopBack(leftHalf),
                    seqPushBack(rightHalf, seqBack(leftHalf)), i + 1)
          ELSE <<leftHalf, rightHalf>>
  IN loop(l, <<>>, 0)

\* splitHalves that pops one element more than it moves.
splitHalvesDrop(l) ==
  IF Len(l) < 2 THEN <<l, <<>>>>
  ELSE LET halves == splitLoop(l, <<>>, 0, Len(l) \div 2)
       IN <<seqPopBack(halves[1]), halves[2]>>

\* LinkedList<LinkedList<T>> splitHalves() const
splitHalves(l) ==
  LET leftHalf == copy(l)
      rightHalf == <<>>
  IN IF Len(l) < 2
       THEN seqPushBack(seqPushBack(<<>>, copy(leftHalf)), copy(rightHalf))
       ELSE splitLoop(leftHalf, rightHalf, 0, Len(l) \div 2)

\* The while loop of explode.
RECURSIVE explodeLoop(_, _)
explodeLoop(workingCopy, lists) ==
  IF workingCopy = <<>> THEN lists
  ELSE LET singletonList == seqPushBack(<<>>, seqFront(workingCopy))
       IN explodeLoop(seqPopFront(workingCopy),
                      seqPushBack(lists, copy(singletonList)))

\* LinkedList<LinkedList<T>> explode() const
explode(l) == explodeLoop(copy(l), <<>>)

\* merge that takes from the second list when the two fronts compare equal.
mergeSecondFirst(this, other) ==
  LET RECURSIVE loop(_, _, _)
      loop(left, right, merged) ==
        IF left = <<>> /\ right = <<>> THEN merged
        ELSE IF left = <<>> THEN loop(left, Tail(right), Append(merged, Head(right)))
        ELSE IF right = <<>> THEN loop(Tail(left), right, Append(merged, Head(left)))
        ELSE IF LessEq(Head(right), Head(left))
          THEN loop(left, Tail(right), Append(merged, Head(right)))
          ELSE loop(Tail(left), right, Append(merged, Head(left)))
  IN loop(this, other, <<>>)

\* The loop of merge: both working copies are consumed from the front; a
\* front is compared only when both lists have one; on a tie the element of
\* the first list is taken.
RECURSIVE mergeLoop(_, _, _)
mergeLoop(left, right, merged) ==
  IF left = <<>> /\ right = <<>> THEN merged
  ELSE IF left = <<>>
    THEN mergeLoop(left, seqPopFront(right), seqPushBack(merged, seqFront(right)))
  ELSE IF right = <<>>
    THEN mergeLoop(seqPopFront(left), right, seqPushBack(merged, seqFront(left)))
  ELSE IF LessEq(seqFront(left), seqFront(right))
    THEN mergeLoop(seqPopFront(left), right, seqPushBack(merged, seqFront(left)))
    ELSE mergeLoop(left, seqPopFront(right), seqPushBack(merged, seqFront(right)))

\* LinkedList<T> merge(const LinkedList<T>& other) const
merge(this, other) == mergeLoop(copy(this), copy(other), <<>>)

\* void insertOrdered(const T& newData): newData goes to the first position
\* that keeps a sorted list non-decreasing, that is, before the first element
\* it is <= to.
RECURSIVE insertOrdered(_, _)
insertOrdered(l, newData) ==
  IF l = <<>> THEN seqPushBack(l, newData)
  ELSE IF LessEq(newData, seqFront(l)) THEN seqPushFront(l, newData)
  ELSE seqPushFront(insertOrdered(seqPopFront(l), newData), seqFront(l))

\* insertionSort that walks the source from the back to the front.
insertionSortBackwards(l) ==
  LET RECURSIVE loop(_, _)
      loop(result, rest) ==
        IF rest = <<>> THEN result
        ELSE loop(insertOrdered(result, seqBack(rest)), seqPopBack(rest))
  IN loop(<<>>, l)

\* The while loop of insertionSort.
RECURSIVE insertionLoop(_, _)
insertionLoop(result, rest) ==
  IF rest = <<>> THEN result
  ELSE insertionLoop(insertOrdered(result, Head(rest)), Tail(rest))

\* LinkedList<T> insertionSort() const
insertionSort(l) == insertionLoop(<<>>, l)

\* LinkedList<T> mergeSortRecursive() const
RECURSIVE mergeSortRecursive(_)
mergeSortRecursive(l) ==
  IF Len(l) < 2 THEN copy(l)
  ELSE LET halves == splitHalves(l)
           left == copy(mergeSortRecursive(seqFront(halves)))
           right == copy(mergeSortRecursive(seqBack(halves)))
       IN merge(left, right)

\* The while loop of mergeSortIterative.
RECURSIVE workLoop(_)
workLoop(workQueue) ==
  IF Len(workQueue) > 1
    THEN LET left == copy(seqFront(workQueue))
             q1 == seqPopFront(workQueue)
             right == copy(seqFront(q1))
             q2 == seqPopFront(q1)
             merged == merge(left, right)
         IN workLoop(seqPushBack(q2, copy(merged)))
    ELSE copy(seqFront(workQueue))

\* mergeSortIterative that stops as soon as two lists are left in the queue.
mergeSortIterativeEarly(l) ==
  LET RECURSIVE loop(_)
      loop(workQueue) ==
        IF Len(workQueue) > 2
          THEN loop(seqPushBack(seqPopFront(seqPopFront(workQueue)),
                                merge(workQueue[1], workQueue[2])))
          ELSE seqFront(workQueue)
  IN IF Len(l) < 2 THEN l ELSE loop(explode(l))

\* LinkedList<T> mergeSortIterative() const
mergeSortIterative(l) ==
  IF Len(l) < 2 THEN copy(l)
  ELSE workLoop(explode(l))

\* LinkedList<T> mergeSort() const
mergeSort(l) == mergeSortRecursive(l)

\* -------------------------------------------------------- the two levels
\* Each member function of the node level acts on the element sequence of its
\* list as its value-level counterpart does, and leaves the other lists'
\* element sequences alone.
ElementsOf(o) == Elements([objs |-> objs, nodes |-> nodes, err |-> "none"], o)
ElementsAfter(o) == Elements([objs |-> objs', nodes |-> nodes', err |-> "none"], o)

Refinement ==
  [][LET o == ret'.obj
     IN /\ ret'.op = "pushFront" => ElementsAfter(o) = seqPushFront(ElementsOf(o), ret'.val)
        /\ ret'.op = "pushBack" => ElementsAfter(o) = seqPushBack(ElementsOf(o), ret'.val)
        /\ ret'.op = "popFront" => ElementsAfter(o) = seqPopFront(ElementsOf(o))
        /\ ret'.op = "popBack" => ElementsAfter(o) = seqPopBack(ElementsOf(o))
        /\ ret'.op = "clear" => ElementsAfter(o) = <<>>
        /\ (ret'.op = "front" /\ ret'.err = "none") => ret'.val = seqFront(ElementsOf(o))
        /\ (ret'.op = "back" /\ ret'.err = "none") => ret'.val = seqBack(ElementsOf(o))
        /\ (ret'.op = "operator=" /\ ret'.other # o) =>
             ElementsAfter(o) = copy(ElementsOf(ret'.other))
        /\ \A p \in Objs \ {o} : ElementsAfter(p) = ElementsOf(p)
        /\ ret'.err \in {"none", "front", "back"}]_vars

\* ----------------------------------------------------- value-level actions
\* Each algorithm is a const member function: it returns a new list and
\* leaves the list it is called on, and its argument, as they are.
MergeSort ==
  /\ ran' = "mergeSort"
  /\ out' = mergeSort(a)
  /\ UNCHANGED <<a, b>>
  /\ UNCHANGED nodeVars

MergeSortRecursive ==
  /\ ran' = "mergeSortRecursive"
  /\ out' = mergeSortRecursive(a)
  /\ UNCHANGED <<a, b>>
  /\ UNCHANGED nodeVars

MergeSortIterative ==
  /\ ran' = "mergeSortIterative"
  /\ out' = mergeSortIterative(a)
  /\ UNCHANGED <<a, b>>
  /\ UNCHANGED nodeVars

SplitHalves ==
  /\ ran' = "splitHalves"
  /\ out' = splitHalves(a)
  /\ UNCHANGED <<a, b>>
  /\ UNCHANGED nodeVars

\* a.merge(b); the caller guarantees that both lists are sorted.
Merge ==
  /\ isSorted(a)
  /\ isSorted(b)
  /\ ran' = "merge"
  /\ out' = merge(a, b)
  /\ UNCHANGED <<a, b>>
  /\ UNCHANGED nodeVars

InsertionSort ==
  /\ ran' = "insertionSort"
  /\ out' = insertionSort(a)
  /\ UNCHANGED <<a, b>>
  /\ UNCHANGED nodeVars

\* Any list a, and any sorted list b, of MaxLen elements in all.
InitSort ==
  /\ InitNode
  /\ a \in SeqsUpTo(Elems, MaxLen)
  /\ b \in {l \in SeqsUpTo(Elems, MaxLen - Len(a)) : isSorted(l)}
  /\ ran = "none"
  /\ out = <<>>

NextSort ==
  \/ MergeSort
  \/ MergeSortRecursive
  \/ MergeSortIterative
  \/ SplitHalves
  \/ Merge
  \/ InsertionSort

SpecSort == InitSort /\ [][NextSort]_vars

\* ------------------------------------------------------ value-level claims
Count(e, l) == Cardinality({i \in 1..Len(l) : l[i] = e})
SameElements(l, m) == \A e \in Elems : Count(e, l) = Count(e, m)
WithKey(l, k) == SelectSeq(l, LAMBDA e : Key(e) = k)
Keys(l) == [i \in 1..Len(l) |-> Key(l[i])]
Reverse(l) == [i \in 1..Len(l) |-> l[Len(l) + 1 - i]]
\* Two elements of l compare equal and are not the same element.
HasDistinctEquals(l) ==
  \E i, j \in 1..Len(l) : Key(l[i]) = Key(l[j]) /\ l[i] # l[j]

\* C3: mergeSort() returns a list that is sorted, has the size of the list
\* it was called on and the same multiset of elements, and leaves that list
\* unchanged.
C3_MergeSortSorts ==
  [][ran' = "mergeSort" =>
       /\ a' = a
       /\ isSorted(out')
       /\ Len(out') = Len(a)
       /\ SameElements(out', a)]_vars

\* C3 witness: mergeSort ran on an unsorted list of three elements, two of
\* which compare equal.
C3_Witness ==
  /\ ran = "mergeSort"
  /\ Len(a) = 3
  /\ ~isSorted(a)
  /\ HasDistinctEquals(a)
  /\ isSorted(out)

\* C4 as claimed: mergeSortIterative() returns the element sequence that
\* mergeSortRecursive() returns, for every list.
C4_SameSequence ==
  ran = "mergeSortIterative" => out = mergeSortRecursive(a)

\* C4 amended: the two return lists with the same sequence of keys and the
\* same multiset of elements, and the same element sequence whenever no two
\* different elements of the list compare equal.
C4_SameKeys ==
  ran = "mergeSortIterative" =>
    /\ Keys(out) = Keys(mergeSortRecursive(a))
    /\ SameElements(out, mergeSortRecursive(a))
    /\ ~HasDistinctEquals(a) => out = mergeSortRecursive(a)

\* C4 witness: mergeSortIterative ran on an unsorted list of three elements
\* with a repeated element, and returned what mergeSortRecursive returns.
C4_Witness ==
  /\ ran = "mergeSortIterative"
  /\ Len(a) = 3
  /\ ~isSorted(a)
  /\ \E i, j \in 1..Len(a) : i # j /\ a[i] = a[j]
  /\ out = mergeSortRecursive(a)

\* C5: for sorted a and b, a.merge(b) is sorted, has Len(a) + Len(b)
\* elements, holds exactly the elements of a and b, and for every key holds
\* a's elements of that key, in a's order, before b's, in b's order.
C5_MergeStable ==
  ran = "merge" =>
    /\ isSorted(out)
    /\ Len(out) = Len(a) + Len(b)
    /\ \A e \in Elems : Count(e, out) = Count(e, a) + Count(e, b)
    /\ \A k \in 1..MaxKey : WithKey(out, k) = WithKey(a, k) \o WithKey(b, k)

\* C5 witness: merge ran on two non-empty lists that share a key, under
\* different elements.
C5_Witness ==
  /\ ran = "merge"
  /\ \E i \in 1..Len(a), j \in 1..Len(b) : Key(a[i]) = Key(b[j]) /\ a[i] # b[j]
  /\ Len(out) = Len(a) + Len(b)

\* C6: splitHalves() returns two lists, the right one of floor(n/2) elements
\* and the left one of the rest, whose concatenation is the list it was
\* called on; for n < 2 the left one is the whole list and the right one is
\* empty; the list it was called on is unchanged.
C6_SplitHalves ==
  [][ran' = "splitHalves" =>
       /\ a' = a
       /\ Len(out') = 2
       /\ Len(out'[2]) = Len(a) \div 2
       /\ Len(out'[1]) = Len(a) - (Len(a) \div 2)
       /\ out'[1] \o out'[2] = a
       /\ Len(a) < 2 => (out'[1] = a /\ out'[2] = <<>>)]_vars

\* C6 witness: splitHalves ran on a list of three different elements.
C6_Witness ==
  /\ ran = "splitHalves"
  /\ Len(a) = 3
  /\ a[1] # a[2] /\ a[2] # a[3] /\ a[1] # a[3]
  /\ Len(out[1]) = 2
  /\ Len(out[2]) = 1

=============================================================================
